---- MODULE Spec2Model ----
(***************************************************************************)
(* Domain-Checker.                                                         *)
(*                                                                         *)
(* Spec: the lookup engine of domain_checker/core.py.  One DomainChecker   *)
(* is constructed (Init) and one lookup_domains_bulk call is followed from *)
(* its start to its return or its exception.  Each target of the batch is  *)
(* an asyncio task running lookup_with_semaphore; a task's steps are the   *)
(* places where the coroutine can be suspended (semaphore, throttler,      *)
(* backend calls).                                                         *)
(*                                                                         *)
(* SessionSpec: the same batch with the RDAP call split where it suspends, *)
(* at the HTTP request, to follow the aiohttp sessions of rdap_client.py   *)
(* and connection_pool.py.                                                 *)
(*                                                                         *)
(* SummarySpec, PropagationSpec: propagation_checker.py, the summary built *)
(* from a list of probe results and one check_propagation call with one    *)
(* task per resolver.                                                      *)
(*                                                                         *)
(* NormalizeSpec, FilterSpec, CompareSpec: the record-line functions of    *)
(* cli.py and the three outputs of the nameserver comparison.              *)
(*                                                                         *)
(* ClassifySpec: DomainChecker._determine_registration_status.             *)
(*                                                                         *)
(* DigDataSpec: DigClient.lookup, from the text dig printed to the record. *)
(*                                                                         *)
(* PanelSpec: the resolver lists of propagation_checker.py as list         *)
(* objects, the module's GLOBAL_DNS_RESOLVERS and the self.resolvers of    *)
(* each DNSPropagationChecker being references to them.                    *)
(*                                                                         *)
(* Every specification leaves the variables of the other parts at their    *)
(* idle values.  Wall-clock values (lookup_time, total_time) are not part  *)
(* of the model.                                                           *)
(***************************************************************************)
EXTENDS Integers, Sequences, FiniteSets, TLC

\* ------------------------------------------------------------------ bounds
MaxDomains == 2
MaxConcurrent == 2

\* ------------------------------------------------------------ input values
Domains == {"a.com", "b.xyz"}
KnownMethods == {"auto", "rdap", "whois", "dig"}
Methods == KnownMethods \cup {"ftp"}

None == [kind |-> "None"]

\* A Python str is a sequence of tokens, so that `x in text` is a search
\* and `if text` is a test for None and for the empty text.
Str(tokens) == [kind |-> "str", tokens |-> tokens]
Contains(text, token) == \E k \in 1..Len(text.tokens) : text.tokens[k] = token
Truthy(text) == text # None /\ Len(text.tokens) > 0
Date(d) == [kind |-> "datetime", value |-> d]
Json(body) == [kind |-> "json", body |-> body]
WhoisEntry(body) == [kind |-> "WhoisEntry", body |-> body]

\* --------------------------------------------------------------- models.py
\* The fields pydantic knows for LookupResult (lookup_time is the wall
\* clock and carries no state here, but it is a declared field).
LookupResultFields == {"domain", "success", "data", "error", "lookup_time", "method"}

\* BaseModel.__setattr__: assigning a name that is not a declared field
\* raises ValueError, any declared field is assignable.
has_field(name) == name \in LookupResultFields

DomainInfo(domain, source, registrar, creation_date, expiration_date, name_servers, raw_data) ==
    [kind |-> "DomainInfo", domain |-> domain, source |-> source,
     registrar |-> registrar, creation_date |-> creation_date,
     expiration_date |-> expiration_date, name_servers |-> name_servers,
     raw_data |-> raw_data]

\* A record with only domain, source and raw_data given.
MinimalInfo(domain, source, raw_data) ==
    DomainInfo(domain, source, None, None, None, <<>>, raw_data)

LookupResult(domain, success, data, error, method) ==
    [kind |-> "LookupResult", domain |-> domain, success |-> success,
     data |-> data, error |-> error, method |-> method]

\* An exception object; msg is str(e).
Raised(type, msg) == [kind |-> "Exception", type |-> type, msg |-> Str(<<msg>>)]

IsException(x) == x.kind = "Exception"

BulkLookupResult(total, successful, failed, res) ==
    [kind |-> "BulkLookupResult", total_domains |-> total,
     successful_lookups |-> successful, failed_lookups |-> failed,
     results |-> res]

\* ----------------------------------------------------------------- core.py
\* str.lower() on the texts the backends produce; a token is one phrase.
Lower(token) ==
    CASE token = "No RDAP data available" -> "no rdap data available"
      [] token = "No WHOIS data available" -> "no whois data available"
      [] token = "No DNS records found" -> "no dns records found"
      [] token = "Error:" -> "error:"
      [] token = "Registrar:" -> "registrar:"
      [] token = "No match" -> "no match"
      [] OTHER -> token

LowerText(text) == Str([k \in 1..Len(text.tokens) |-> Lower(text.tokens[k])])

ContainsAny(text, phrases) == \E k \in 1..Len(text.tokens) : text.tokens[k] \in phrases

ErrorPhrases ==
    {"no match", "not found", "no entries found", "no data found",
     "domain not found", "not registered", "no whois data available",
     "no information available"}

RegisteredPhrases ==
    {"registrar:", "creation date:", "expiration date:", "name server:",
     "status: active", "status: ok", "domain name:", "registry domain id:"}

NotRegisteredPhrases == ErrorPhrases \cup {"no data available"}

\* The rules with the error text looked at before the record's fields.
determine_status_error_first(result) ==
    IF ~result.success \/ result.data = None THEN "not_registered"
    ELSE IF Truthy(result.error) /\ ContainsAny(LowerText(result.error), ErrorPhrases)
         THEN "not_registered"
    ELSE IF Truthy(result.data.registrar) THEN "registered"
    ELSE IF result.data.creation_date # None THEN "registered"
    ELSE IF result.data.expiration_date # None THEN "registered"
    ELSE IF Len(result.data.name_servers) > 0 THEN "registered"
    ELSE IF Truthy(result.data.raw_data)
            /\ ContainsAny(LowerText(result.data.raw_data), RegisteredPhrases)
         THEN "registered"
    ELSE IF Truthy(result.data.raw_data)
            /\ ContainsAny(LowerText(result.data.raw_data), NotRegisteredPhrases)
         THEN "not_registered"
    ELSE "possibly_registered"

\* _determine_registration_status, lines 324-384.
determine_registration_status(result) ==
    IF ~result.success \/ result.data = None THEN "not_registered"
    ELSE IF Truthy(result.data.registrar) THEN "registered"
    ELSE IF result.data.creation_date # None THEN "registered"
    ELSE IF result.data.expiration_date # None THEN "registered"
    ELSE IF Len(result.data.name_servers) > 0 THEN "registered"
    ELSE IF Truthy(result.error) /\ ContainsAny(LowerText(result.error), ErrorPhrases)
         THEN "not_registered"
    ELSE IF Truthy(result.data.raw_data)
            /\ ContainsAny(LowerText(result.data.raw_data), RegisteredPhrases)
         THEN "registered"
    ELSE IF Truthy(result.data.raw_data)
            /\ ContainsAny(LowerText(result.data.raw_data), NotRegisteredPhrases)
         THEN "not_registered"
    ELSE "possibly_registered"

\* `result.registration_status = self._determine_registration_status(result)`
\* followed by `return result`: the value handed back, or the exception of
\* the assignment.
assign_status(result) ==
    IF has_field("registration_status")
    THEN [f \in (DOMAIN result) \cup {"registration_status"} |->
            IF f = "registration_status"
            THEN determine_registration_status(result)
            ELSE result[f]]
    ELSE Raised("ValueError", "object has no field registration_status")

\* The handler `except Exception as e` of lookup_domain (lines 135-145).
outer_except(domain, e, method) ==
    assign_status(LookupResult(domain, FALSE, None, e.msg, method))

\* A single-backend branch (rdap, whois, dig): the backend answer o is
\* either a DomainInfo or an exception.
single_attempt(domain, o, used, method) ==
    IF IsException(o) THEN outer_except(domain, o, method)
    ELSE LET r == assign_status(LookupResult(domain, TRUE, o, None, used))
         IN IF IsException(r) THEN outer_except(domain, r, method) ELSE r

\* Line 65: the RDAP answer that ends the auto branch.
rdap_usable(info) == Truthy(info.raw_data) /\ ~Contains(info.raw_data, "Error:")

\* ---------------------------------------------------------- rdap_client.py
\* What the network gives an RDAP lookup: the session cannot be obtained,
\* the server answers no 200 / the request fails, the JSON cannot be
\* parsed into a record, or the JSON parses.
RdapResponses == {"session_error", "no_data", "bad_json", "json_full", "json_bare"}

Tld(domain) == IF domain = "a.com" THEN "com" ELSE "xyz"

\* _find_rdap_server: the TLD table with its default, never None.
find_rdap_server(domain) ==
    IF Tld(domain) = "com" THEN Str(<<"https://rdap.verisign.com/">>)
    ELSE Str(<<"https://rdap.verisign.com/">>)

\* _fetch_rdap_data: the JSON of a 200 answer, None otherwise.
fetch_rdap_data(response) ==
    IF response \in {"bad_json", "json_full", "json_bare"} THEN Json(response) ELSE None

\* _parse_rdap_data
parse_rdap_data(domain, rdap_data) ==
    IF rdap_data.body = "json_full"
    THEN DomainInfo(domain, "rdap", Str(<<"ACME">>), Date("2020-01-01"), Date("2030-01-01"),
                    <<"ns1.a.com">>, Str(<<"{json}">>))
    ELSE DomainInfo(domain, "rdap", None, None, None, <<>>, Str(<<"{json}">>))

\* RdapClient.lookup inside `async with self.rdap_client`.
rdap_lookup(domain, response) ==
    IF response = "session_error" THEN Raised("ClientError", "session")
    ELSE IF find_rdap_server(domain) = None
         THEN MinimalInfo(domain, "rdap", Str(<<"No RDAP server found for domain">>))
    ELSE IF fetch_rdap_data(response) = None
         THEN MinimalInfo(domain, "rdap", Str(<<"No RDAP data available">>))
    ELSE IF response = "bad_json"
         THEN MinimalInfo(domain, "rdap", Str(<<"Error:", "parse">>))
    ELSE parse_rdap_data(domain, fetch_rdap_data(response))

\* --------------------------------------------------------- whois_client.py
WhoisResponses == {"lookup_failed", "bad_entry", "entry_full", "entry_bare"}

\* _sync_whois_lookup: the entry, None when whois.whois raises.
sync_whois_lookup(response) ==
    IF response = "lookup_failed" THEN None ELSE WhoisEntry(response)

\* _parse_whois_data
parse_whois_data(domain, whois_data) ==
    IF whois_data = None
    THEN MinimalInfo(domain, "whois", Str(<<"No WHOIS data available">>))
    ELSE IF whois_data.body = "entry_full"
    THEN DomainInfo(domain, "whois", Str(<<"ACME">>), Date("2020-01-01"), Date("2030-01-01"),
                    <<"ns1.a.com">>, Str(<<"Registrar:", "ACME">>))
    ELSE DomainInfo(domain, "whois", None, None, None, <<>>, Str(<<"whois text">>))

\* WhoisClient.lookup: every exception becomes an "Error:" payload.
whois_lookup(domain, response) ==
    IF response = "bad_entry"
    THEN MinimalInfo(domain, "whois", Str(<<"Error:", "parse">>))
    ELSE parse_whois_data(domain, sync_whois_lookup(response))

\* ----------------------------------------------------------- dig_client.py
DigResponses == {"dig_failed", "empty", "records"}

\* DigClient.lookup and _parse_dig_data.
dig_lookup(domain, response) ==
    IF response = "dig_failed"
    THEN MinimalInfo(domain, "dig", Str(<<"Error:", "DIG command failed">>))
    ELSE IF response = "empty"
    THEN MinimalInfo(domain, "dig", Str(<<"No DNS records found">>))
    ELSE DomainInfo(domain, "dig", None, None, None, <<"ns1.a.com">>,
                    Str(<<"a.com. 300 IN A 1.2.3.4">>))

\* ------------------------------------------------------------------- state
VARIABLES
    max_concurrent,  \* DomainChecker.max_concurrent
    bulk_pc,         \* lookup_domains_bulk: "idle", "gathering", "returned", "raised"
    domains,         \* its argument: the targets, in input order
    method,          \* its argument: the lookup method
    semaphore,       \* asyncio.Semaphore._value
    pc,              \* per task: "created", "throttle", "lookup", "rdap" (request
                     \* sent, SessionSpec only), "whois", "done"
    calls,           \* per task: the registration/DNS backends queried, in order
    rdap_answer,     \* per task: what RdapClient.lookup gave (None before)
    whois_answer,    \* per task: what WhoisClient.lookup gave (None before)
    results,         \* asyncio.gather's list: per task a LookupResult or an exception
    ret              \* what lookup_domains_bulk returned or raised (None before)

\* propagation_checker.py
VARIABLES
    probe_results,   \* PropagationSummary.__init__: its `results` argument
    summary,         \* the PropagationSummary built (None before)
    check_pc,        \* check_propagation: "idle", "gathering", "returned", "raised"
    resolvers,       \* DNSPropagationChecker.resolvers
    record_type,     \* check_propagation: its record_type argument
    probe_pc,        \* per _query_resolver task: "created", "dig", "done"
    dig_run,         \* per task: how subprocess.run of dig ended (None before)
    probe_out        \* asyncio.gather's list: per task a PropagationResult or an exception

\* cli.py and DomainChecker._determine_registration_status
VARIABLES
    record_line,     \* normalize_dns_record: its argument
    normalized,      \* what normalize_dns_record returned, call after call
    raw_data,        \* filter_records_by_type: the raw answer
    expected_type,   \* filter_records_by_type: the type asked for
    filtered,        \* what filter_records_by_type returned (None before)
    all_results,     \* display_dns_comparison_*: all_results[rt], both answers
    rt,              \* display_dns_comparison_*: the record type compared
    shown,           \* per output format: what the comparison reported (None before)
    result,          \* _determine_registration_status: its argument
    status           \* what _determine_registration_status returned (None before)

\* rdap_client.py and connection_pool.py: the HTTP sessions of a batch
VARIABLES
    client_session,   \* RdapClient.session of the one client of the DomainChecker
    pool_session,     \* ConnectionPool._session of the global pool
    sessions_created, \* how many aiohttp.ClientSession objects were constructed
    closed_sessions,  \* the sessions whose close() was called
    requests          \* the tasks awaiting session.get, each with its session

\* propagation_checker.py: the resolver panels, as list objects
VARIABLES
    heap,              \* the list objects; heap[1] is GLOBAL_DNS_RESOLVERS
    checker_resolvers, \* per DNSPropagationChecker: the list self.resolvers refers to
    panel_seen         \* per checker: the panel its last check_propagation went through

\* dig_client.py: DigClient.lookup
VARIABLES
    dig_output,        \* the text dig printed, a list of lines, or the exception of the run
    dig_record_type,   \* lookup: its record_type argument
    auth_nameservers,  \* lookup: the servers the NS query gave
    dig_info           \* the DomainInfo lookup returned (None before)

lookup_vars == <<max_concurrent, bulk_pc, domains, method, semaphore, pc, calls,
                 rdap_answer, whois_answer, results, ret>>
summary_vars == <<probe_results, summary>>
propagation_vars == <<check_pc, resolvers, record_type, probe_pc, dig_run, probe_out>>
normalize_vars == <<record_line, normalized>>
filter_vars == <<raw_data, expected_type, filtered>>
compare_vars == <<all_results, rt, shown>>
classify_vars == <<result, status>>

session_vars == <<client_session, pool_session, sessions_created, closed_sessions, requests>>

panel_vars == <<heap, checker_resolvers, panel_seen>>

digdata_vars == <<dig_output, dig_record_type, auth_nameservers, dig_info>>

vars == <<lookup_vars, summary_vars, propagation_vars, normalize_vars,
          filter_vars, compare_vars, classify_vars, session_vars, panel_vars,
          digdata_vars>>

\* What each part of the program leaves alone.
outside_lookup == <<summary_vars, propagation_vars, normalize_vars,
                    filter_vars, compare_vars, classify_vars, session_vars,
                    panel_vars, digdata_vars>>
outside_summary == <<lookup_vars, propagation_vars, normalize_vars,
                     filter_vars, compare_vars, classify_vars, session_vars,
                     panel_vars, digdata_vars>>
outside_propagation == <<lookup_vars, normalize_vars, filter_vars,
                         compare_vars, classify_vars, session_vars,
                         panel_vars, digdata_vars>>
outside_normalize == <<lookup_vars, summary_vars, propagation_vars,
                       filter_vars, compare_vars, classify_vars, session_vars,
                       panel_vars, digdata_vars>>
outside_filter == <<lookup_vars, summary_vars, propagation_vars,
                    normalize_vars, compare_vars, classify_vars, session_vars,
                    panel_vars, digdata_vars>>
outside_compare == <<lookup_vars, summary_vars, propagation_vars,
                     normalize_vars, filter_vars, classify_vars, session_vars,
                     panel_vars, digdata_vars>>
outside_classify == <<lookup_vars, summary_vars, propagation_vars,
                      normalize_vars, filter_vars, compare_vars, session_vars,
                      panel_vars, digdata_vars>>

outside_session == <<summary_vars, propagation_vars, normalize_vars,
                     filter_vars, compare_vars, classify_vars, panel_vars,
                     digdata_vars>>

outside_panel == <<lookup_vars, summary_vars, propagation_vars,
                   normalize_vars, filter_vars, compare_vars, classify_vars,
                   session_vars, digdata_vars>>

outside_digdata == <<lookup_vars, summary_vars, propagation_vars,
                     normalize_vars, filter_vars, compare_vars, classify_vars,
                     session_vars, panel_vars>>

\* The parts of the program that are not running.
lookup_idle ==
    /\ max_concurrent = 0
    /\ bulk_pc = "idle"
    /\ domains = <<>>
    /\ method = "auto"
    /\ semaphore = 0
    /\ pc = <<>>
    /\ calls = <<>>
    /\ rdap_answer = <<>>
    /\ whois_answer = <<>>
    /\ results = <<>>
    /\ ret = None
summary_idle == probe_results = <<>> /\ summary = None
propagation_idle ==
    /\ check_pc = "idle"
    /\ resolvers = <<>>
    /\ record_type = "A"
    /\ probe_pc = <<>>
    /\ dig_run = <<>>
    /\ probe_out = <<>>
normalize_idle == record_line = <<>> /\ normalized = <<>>
filter_idle == raw_data = None /\ expected_type = "" /\ filtered = None
compare_idle == all_results = None /\ rt = None /\ shown = None
classify_idle == result = None /\ status = None

session_idle ==
    /\ client_session = None
    /\ pool_session = None
    /\ sessions_created = 0
    /\ closed_sessions = {}
    /\ requests = {}

panel_idle == heap = <<>> /\ checker_resolvers = <<>> /\ panel_seen = <<>>

digdata_idle ==
    /\ dig_output = <<>>
    /\ dig_record_type = ""
    /\ auth_nameservers = <<>>
    /\ dig_info = None

\* -------------------------------------------------------------- utils.py
\* A target validate_domain rejects: the blank fails the pattern.
Malformed == {"exa mple"}

\* validate_domain, lines 12-61, on the targets at hand: the name in
\* lower case, or the ValidationError of the pattern check.
validate_domain(domain) ==
    IF domain \in Malformed
    THEN Raised("ValidationError", "Invalid domain format")
    ELSE Str(<<domain>>)

Tasks == DOMAIN pc

SeqsUpTo(S, n) == UNION {[1..k -> S] : k \in 0..n}

\* The lists lookup_domains_bulk is called with: well-formed targets, and
\* a malformed one alone or after a well-formed one.
Batches ==
    SeqsUpTo(Domains, MaxDomains)
    \cup {<<t>> : t \in Malformed} \cup {<<"a.com", t>> : t \in Malformed}

\* DomainChecker.__init__: no lookup running yet.
Init ==
    /\ max_concurrent \in 0..MaxConcurrent
    /\ bulk_pc = "idle"
    /\ domains = <<>>
    /\ method = "auto"
    /\ semaphore = 0
    /\ pc = <<>>
    /\ calls = <<>>
    /\ rdap_answer = <<>>
    /\ whois_answer = <<>>
    /\ results = <<>>
    /\ ret = None
    /\ summary_idle /\ propagation_idle /\ normalize_idle
    /\ filter_idle /\ compare_idle /\ classify_idle
    /\ session_idle
    /\ panel_idle
    /\ digdata_idle

\* lookup_domains_bulk up to asyncio.gather: the semaphore and one task
\* per target are created.
StartBulk(ds, m) ==
    /\ bulk_pc = "idle"
    /\ bulk_pc' = "gathering"
    /\ domains' = ds
    /\ method' = m
    /\ semaphore' = max_concurrent
    /\ pc' = [i \in 1..Len(ds) |-> "created"]
    /\ calls' = [i \in 1..Len(ds) |-> <<>>]
    /\ rdap_answer' = [i \in 1..Len(ds) |-> None]
    /\ whois_answer' = [i \in 1..Len(ds) |-> None]
    /\ results' = [i \in 1..Len(ds) |-> None]
    /\ UNCHANGED <<max_concurrent, ret>>
    /\ UNCHANGED outside_lookup

\* A semaphore that never reports itself locked.
locked_never(value) == FALSE

\* Semaphore.locked()
locked(value) == value = 0

\* `async with semaphore`: the task takes a permit when one is free.
AcquireSemaphore(i) ==
    /\ bulk_pc = "gathering"
    /\ pc[i] = "created"
    /\ ~locked(semaphore)
    /\ semaphore' = semaphore - 1
    /\ pc' = [pc EXCEPT ![i] = "throttle"]
    /\ UNCHANGED <<max_concurrent, bulk_pc, domains, method, calls,
                   rdap_answer, whois_answer, results, ret>>
    /\ UNCHANGED outside_lookup

\* `async with self.throttler`: the rate limiter lets the task through and
\* lookup_domain is entered.
ThrottlerAdmit(i) ==
    /\ bulk_pc = "gathering"
    /\ pc[i] = "throttle"
    /\ pc' = [pc EXCEPT ![i] = "lookup"]
    /\ UNCHANGED <<max_concurrent, bulk_pc, domains, method, semaphore, calls,
                   rdap_answer, whois_answer, results, ret>>
    /\ UNCHANGED outside_lookup

\* A task that ends and keeps its permit.
TaskEndsHolding(i, t) ==
    /\ results' = [results EXCEPT ![i] = t]
    /\ pc' = [pc EXCEPT ![i] = "done"]
    /\ semaphore' = semaphore

\* lookup_domain has returned value t or raised exception t: it becomes the
\* task's entry in gather's list, and leaving `async with semaphore` gives
\* the permit back.
TaskEnds(i, t) ==
    /\ results' = [results EXCEPT ![i] = t]
    /\ pc' = [pc EXCEPT ![i] = "done"]
    /\ semaphore' = semaphore + 1

\* lookup_domain, lines 60-77 and 92-104: the RDAP backend is awaited.
RdapAttempt(i, response) ==
    /\ bulk_pc = "gathering"
    /\ pc[i] = "lookup"
    /\ method \in {"auto", "rdap"}
    /\ LET o == rdap_lookup(domains[i], response) IN
        /\ calls' = [calls EXCEPT ![i] = Append(@, "rdap")]
        /\ rdap_answer' = [rdap_answer EXCEPT ![i] = o]
        /\ IF method = "rdap"
           THEN TaskEnds(i, single_attempt(domains[i], o, "rdap", method))
           ELSE LET r == IF IsException(o) \/ ~rdap_usable(o)
                         THEN None
                         ELSE assign_status(LookupResult(domains[i], TRUE, o, None, "rdap"))
                IN IF r = None \/ IsException(r)
                   THEN \* line 76: `except Exception: pass`, on to WHOIS
                        /\ pc' = [pc EXCEPT ![i] = "whois"]
                        /\ UNCHANGED <<semaphore, results>>
                   ELSE TaskEnds(i, r)
    /\ UNCHANGED <<max_concurrent, bulk_pc, domains, method, whois_answer, ret>>
    /\ UNCHANGED outside_lookup

\* lookup_domain, lines 79-90 and 106-117: the WHOIS backend is awaited.
WhoisAttempt(i, response) ==
    /\ bulk_pc = "gathering"
    /\ \/ pc[i] = "lookup" /\ method = "whois"
       \/ pc[i] = "whois"
    /\ LET o == whois_lookup(domains[i], response) IN
        /\ calls' = [calls EXCEPT ![i] = Append(@, "whois")]
        /\ whois_answer' = [whois_answer EXCEPT ![i] = o]
        /\ TaskEnds(i, single_attempt(domains[i], o, "whois", method))
    /\ UNCHANGED <<max_concurrent, bulk_pc, domains, method, rdap_answer, ret>>
    /\ UNCHANGED outside_lookup

\* lookup_domain, lines 119-130: the DNS backend is awaited.
DigAttempt(i, response) ==
    /\ bulk_pc = "gathering"
    /\ pc[i] = "lookup"
    /\ method = "dig"
    /\ calls' = [calls EXCEPT ![i] = Append(@, "dig")]
    /\ TaskEnds(i, single_attempt(domains[i], dig_lookup(domains[i], response), "dig", method))
    /\ UNCHANGED <<max_concurrent, bulk_pc, domains, method, rdap_answer,
                   whois_answer, ret>>
    /\ UNCHANGED outside_lookup

\* lookup_domain, lines 132-133: `raise ValueError(f"Unknown method: ...")`.
UnknownMethod(i) ==
    /\ bulk_pc = "gathering"
    /\ pc[i] = "lookup"
    /\ method \notin KnownMethods
    /\ TaskEnds(i, outer_except(domains[i], Raised("ValueError", "Unknown method: " \o method), method))
    /\ UNCHANGED <<max_concurrent, bulk_pc, domains, method, calls,
                   rdap_answer, whois_answer, ret>>
    /\ UNCHANGED outside_lookup

\* Lines 178-191: the loop over gather's list, from index i on; the list
\* built so far is acc.  An exception of the loop body ends the loop.
RECURSIVE process_results(_, _, _, _, _)
process_results(res, ds, m, i, acc) ==
    IF i > Len(ds) THEN [kind |-> "list", items |-> acc]
    ELSE IF IsException(res[i])
    THEN LET lr == assign_status(LookupResult(ds[i], FALSE, None, res[i].msg, m))
         IN IF IsException(lr) THEN lr
            ELSE process_results(res, ds, m, i + 1, Append(acc, lr))
    ELSE process_results(res, ds, m, i + 1, Append(acc, res[i]))

\* Lines 193-204.
bulk_result(ds, processed) ==
    LET successful == Cardinality({i \in 1..Len(processed) : processed[i].success})
    IN BulkLookupResult(Len(ds), successful, Len(processed) - successful, processed)

\* asyncio.gather has every task's entry; lines 177-204 run without
\* suspension.
GatherReturns ==
    /\ bulk_pc = "gathering"
    /\ \A i \in Tasks : pc[i] = "done"
    /\ LET p == process_results(results, domains, method, 1, <<>>) IN
        IF IsException(p)
        THEN bulk_pc' = "raised" /\ ret' = p
        ELSE bulk_pc' = "returned" /\ ret' = bulk_result(domains, p.items)
    /\ UNCHANGED <<max_concurrent, domains, method, semaphore, pc, calls,
                   rdap_answer, whois_answer, results>>
    /\ UNCHANGED outside_lookup

Next ==
    \/ \E ds \in Batches, m \in Methods : StartBulk(ds, m)
    \/ \E i \in Tasks : AcquireSemaphore(i)
    \/ \E i \in Tasks : ThrottlerAdmit(i)
    \/ \E i \in Tasks, response \in RdapResponses : RdapAttempt(i, response)
    \/ \E i \in Tasks, response \in WhoisResponses : WhoisAttempt(i, response)
    \/ \E i \in Tasks, response \in DigResponses : DigAttempt(i, response)
    \/ \E i \in Tasks : UnknownMethod(i)
    \/ GatherReturns

Spec == Init /\ [][Next]_vars

\* The event loop runs every task that can run.
FairSpec == Spec /\ WF_vars(Next)

\* ============================================ the HTTP sessions of a batch
ClientSession(n) == [kind |-> "ClientSession", id |-> n]

\* ClientSession.closed
closed(s) == s \in closed_sessions

\* ConnectionPool.get_session and create_session: the pool's session, a
\* new one when there is none or it is closed; n sessions exist already.
get_session(n) ==
    IF pool_session = None \/ closed(pool_session) THEN ClientSession(n + 1)
    ELSE pool_session

\* The session the request of task i was sent on.
session_of(i) == (CHOOSE r \in requests : r.task = i).session

\* `async with self.rdap_client` and RdapClient.lookup up to the request:
\* __aenter__ stores a new session in the client, lookup overwrites it
\* with the pool's session, and _fetch_rdap_data sends the request on it
\* and waits for the answer.
RdapEnter(i) ==
    /\ bulk_pc = "gathering"
    /\ pc[i] = "lookup"
    /\ method \in {"auto", "rdap"}
    /\ LET \* ClientSession(sessions_created + 1) is the session of __aenter__
           pooled == get_session(sessions_created + 1)
       IN /\ sessions_created' = IF pooled = pool_session THEN sessions_created + 1
                                 ELSE sessions_created + 2
          /\ pool_session' = pooled
          /\ client_session' = pooled
          /\ requests' = requests \cup {[task |-> i, session |-> pooled]}
    /\ pc' = [pc EXCEPT ![i] = "rdap"]
    /\ UNCHANGED closed_sessions
    /\ UNCHANGED <<max_concurrent, bulk_pc, domains, method, semaphore, calls,
                   rdap_answer, whois_answer, results, ret>>
    /\ UNCHANGED outside_session

\* The request of task i ends: with an answer of the server, or without
\* one when the session was closed under it.  lookup returns, lines 64-77
\* or 93-104 of lookup_domain run, and __aexit__ closes the session the
\* client holds at that time.
RdapLeave(i, response) ==
    /\ bulk_pc = "gathering"
    /\ pc[i] = "rdap"
    /\ response # "session_error"
    /\ closed(session_of(i)) => response = "no_data"
    /\ LET o == rdap_lookup(domains[i], response) IN
        /\ calls' = [calls EXCEPT ![i] = Append(@, "rdap")]
        /\ rdap_answer' = [rdap_answer EXCEPT ![i] = o]
        /\ IF method = "rdap"
           THEN TaskEnds(i, single_attempt(domains[i], o, "rdap", method))
           ELSE LET r == IF ~rdap_usable(o)
                         THEN None
                         ELSE assign_status(LookupResult(domains[i], TRUE, o, None, "rdap"))
                IN IF r = None \/ IsException(r)
                   THEN /\ pc' = [pc EXCEPT ![i] = "whois"]
                        /\ UNCHANGED <<semaphore, results>>
                   ELSE TaskEnds(i, r)
    /\ requests' = {r \in requests : r.task # i}
    /\ closed_sessions' = IF client_session = None THEN closed_sessions
                          ELSE closed_sessions \cup {client_session}
    /\ UNCHANGED <<client_session, pool_session, sessions_created>>
    /\ UNCHANGED <<max_concurrent, bulk_pc, domains, method, whois_answer, ret>>
    /\ UNCHANGED outside_session

SessionNext ==
    \/ \E ds \in Batches, m \in Methods : StartBulk(ds, m)
    \/ \E i \in Tasks : AcquireSemaphore(i)
    \/ \E i \in Tasks : ThrottlerAdmit(i)
    \/ \E i \in Tasks : RdapEnter(i)
    \/ \E i \in Tasks, response \in RdapResponses : RdapLeave(i, response)
    \/ \E i \in Tasks, response \in WhoisResponses : WhoisAttempt(i, response)
    \/ \E i \in Tasks, response \in DigResponses : DigAttempt(i, response)
    \/ \E i \in Tasks : UnknownMethod(i)
    \/ GatherReturns

SessionSpec == Init /\ [][SessionNext]_vars

\* ================================================= propagation_checker.py
MaxProbes == 2
MaxIps == 2

\* Values a resolver can answer with.
IPs == {"1.2.3.4", "5.6.7.8"}

ToSet(list) == {list[k] : k \in 1..Len(list)}

\* class PropagationResult (the clock values carry no state here).
PropagationResult(resolver_name, resolver_ip, location, resolved_ips, success, error) ==
    [kind |-> "PropagationResult", resolver_name |-> resolver_name,
     resolver_ip |-> resolver_ip, location |-> location,
     resolved_ips |-> resolved_ips, success |-> success, error |-> error]

\* The results a PropagationSummary can be built from: the class is public
\* and takes any list of PropagationResult.
ProbeResults ==
    {PropagationResult("Google Primary", "8.8.8.8", "Global", ips, TRUE, None) : ips \in SeqsUpTo(IPs, MaxIps)}
    \cup {PropagationResult("Google Primary", "8.8.8.8", "Global", ips, FALSE,
                               Str(<<"Query timeout">>)) :
            ips \in SeqsUpTo(IPs, MaxIps)}

\* A float that is a quotient of two integers, kept exact.
Ratio(num, den) == [num |-> num, den |-> den]
SameRatio(p, q) == p.num * q.den = q.num * p.den

\* Lines 51-53.
successful_results(res) == {i \in 1..Len(res) : res[i].success}

\* A union over every result, the failed ones too.
unique_ips_of_all(res) == UNION {ToSet(res[i].resolved_ips) : i \in 1..Len(res)}

\* Lines 55-59.
unique_ips(res) == UNION {ToSet(res[i].resolved_ips) : i \in successful_results(res)}

\* A comparison of the answers as lists.
fully_propagated_lists(res) ==
    LET succ == successful_results(res) IN
    IF Cardinality(succ) > 0
    THEN LET first == CHOOSE i \in succ : \A j \in succ : i <= j
         IN \A i \in succ : res[i].resolved_ips = res[first].resolved_ips
    ELSE FALSE

\* Lines 61-68: every successful answer is compared, as a set, with the
\* first successful answer.
fully_propagated(res) ==
    LET succ == successful_results(res) IN
    IF Cardinality(succ) > 0
    THEN LET first == CHOOSE i \in succ : \A j \in succ : i <= j
             first_ips == ToSet(res[first].resolved_ips)
         IN \A i \in succ : ToSet(res[i].resolved_ips) = first_ips
    ELSE FALSE

\* Line 77, tuple(sorted(resolved_ips)): two lists have the same sorted
\* tuple exactly when each value occurs as often in one as in the other,
\* so the key is the list's count of each value.
ip_key(ips) == [v \in ToSet(ips) |-> Cardinality({k \in 1..Len(ips) : ips[k] = v})]

\* Lines 70-87.
propagation_percentage(res) ==
    LET succ == successful_results(res)
        ip_counts == [i \in succ |->
            Cardinality({j \in succ : ip_key(res[j].resolved_ips) = ip_key(res[i].resolved_ips)})]
    IN IF unique_ips(res) # {} /\ Cardinality(succ) > 0
       THEN LET most_common_count ==
                    CHOOSE n \in {ip_counts[i] : i \in succ} :
                        \A i \in succ : ip_counts[i] <= n
            IN Ratio(most_common_count * 100, Len(res))
       ELSE Ratio(0, 1)

\* PropagationSummary.__init__, lines 40-87.
PropagationSummary(res) ==
    [kind |-> "PropagationSummary",
     results |-> res,
     total_resolvers |-> Len(res),
     successful |-> Cardinality(successful_results(res)),
     failed |-> Len(res) - Cardinality(successful_results(res)),
     unique_ips |-> unique_ips(res),
     fully_propagated |-> fully_propagated(res),
     propagation_percentage |-> propagation_percentage(res)]

\* ---- a PropagationSummary is constructed from any list of results
SummaryInit ==
    /\ probe_results \in SeqsUpTo(ProbeResults, MaxProbes)
    /\ summary = None
    /\ lookup_idle /\ propagation_idle /\ normalize_idle
    /\ filter_idle /\ compare_idle /\ classify_idle
    /\ session_idle
    /\ panel_idle
    /\ digdata_idle

\* PropagationSummary(domain, record_type, results, total_time)
Construct ==
    /\ summary = None
    /\ summary' = PropagationSummary(probe_results)
    /\ UNCHANGED probe_results
    /\ UNCHANGED outside_summary

SummaryNext == Construct

SummarySpec == SummaryInit /\ [][SummaryNext]_vars

\* ---- check_propagation: one _query_resolver task per resolver
MaxResolvers == 2

\* GLOBAL_DNS_RESOLVERS entries, and a custom resolver given without a name.
ResolverDicts ==
    {[name |-> "Google Primary", ip |-> "8.8.8.8", location |-> "Global"],
     [name |-> "Cloudflare Primary", ip |-> "1.1.1.1", location |-> "Global"],
     [ip |-> "9.9.9.9", location |-> "Custom"]}

RecordTypes == {"A", "MX"}

\* A line of dig's output: its text, and the words text.split() gives.
DigLine(text, words) == [text |-> text, words |-> words]

\* How subprocess.run(["dig", "@ip", "+short", ...], timeout=...) can end:
\* dig ran and left an exit status and its standard output (a list of
\* lines; ";;" starts dig's own remarks), or subprocess.run raised.
DigRuns ==
    {[kind |-> "completed", returncode |-> 0, stdout |-> out] :
        out \in {<<>>,
                 <<DigLine("1.2.3.4", <<"1.2.3.4">>)>>,
                 <<DigLine("1.2.3.4", <<"1.2.3.4">>), DigLine("5.6.7.8", <<"5.6.7.8">>)>>,
                 <<DigLine("5.6.7.8", <<"5.6.7.8">>), DigLine("1.2.3.4", <<"1.2.3.4">>)>>,
                 <<DigLine("10 mail.a.com.", <<"10", "mail.a.com.">>), DigLine("", <<>>)>>}}
    \cup {[kind |-> "completed", returncode |-> 9,
           stdout |-> <<DigLine(";; connection timed out; no servers could be reached",
                                <<";;", "connection", "timed", "out;", "no", "servers",
                                  "could", "be", "reached">>)>>]}
    \cup {[kind |-> k] : k \in {"TimeoutExpired", "FileNotFoundError", "OSError"}}

\* dig did not give an answer: it could not be run, was killed at the
\* timeout, or ended with a failure status.
BackendFailed(run) == run.kind # "completed" \/ run.returncode # 0

\* _sync_dig_query, lines 250-269.
sync_dig_query(run) ==
    IF run.kind = "completed" THEN [kind |-> "stdout", lines |-> run.stdout]
    ELSE IF run.kind = "TimeoutExpired" THEN Raised("Exception", "Query timeout after 10s")
    ELSE IF run.kind = "FileNotFoundError" THEN Raised("Exception", "DIG command not found")
    ELSE Raised("Exception", "Query failed: [Errno 12]")

\* _parse_dig_output, lines 271-290, from line k of the output on.
RECURSIVE parse_dig_output(_, _, _)
parse_dig_output(output, rtype, k) ==
    IF k > Len(output) THEN <<>>
    ELSE LET line == output[k]
             rest == parse_dig_output(output, rtype, k + 1)
         IN IF Len(line.words) = 0 \/ line.words[1] = ";;" THEN rest
            ELSE IF rtype = "MX" /\ Len(line.words) >= 2 THEN <<line.words[2]>> \o rest
            ELSE <<line.text>> \o rest

\* resolver["name"], resolver["ip"], resolver["location"] all exist.
well_formed(resolver) == {"name", "ip", "location"} \subseteq DOMAIN resolver

\* _query_resolver, lines 201-248: what the coroutine returns or raises.
query_resolver(resolver, run, rtype) ==
    LET out == IF "ip" \in DOMAIN resolver THEN sync_dig_query(run)
               ELSE Raised("KeyError", "'ip'")
    IN IF ~well_formed(resolver) THEN Raised("KeyError", "'name'")
       ELSE IF IsException(out)
       THEN PropagationResult(resolver.name, resolver.ip, resolver.location,
                              <<>>, FALSE, Str(<<out.msg>>))
       ELSE PropagationResult(resolver.name, resolver.ip, resolver.location,
                              parse_dig_output(out.lines, rtype, 1), TRUE, None)

\* check_propagation, lines 161-178: gather's list with every exception
\* replaced by a failed result of resolver "Unknown".
valid_results(out) ==
    [i \in 1..Len(out) |->
        IF IsException(out[i])
        THEN PropagationResult("Unknown", "Unknown", "Unknown", <<>>, FALSE, Str(<<out[i].msg>>))
        ELSE out[i]]

Probes == DOMAIN probe_pc

PropagationInit ==
    /\ propagation_idle
    /\ summary_idle
    /\ lookup_idle /\ normalize_idle /\ filter_idle /\ compare_idle /\ classify_idle
    /\ session_idle
    /\ panel_idle
    /\ digdata_idle

\* check_propagation up to asyncio.gather, lines 150-159.
StartCheck(rs, rtype) ==
    /\ check_pc = "idle"
    /\ check_pc' = "gathering"
    /\ resolvers' = rs
    /\ record_type' = rtype
    /\ probe_pc' = [i \in 1..Len(rs) |-> "created"]
    /\ dig_run' = [i \in 1..Len(rs) |-> None]
    /\ probe_out' = [i \in 1..Len(rs) |-> None]
    /\ UNCHANGED summary_vars
    /\ UNCHANGED outside_propagation

\* _query_resolver up to `await loop.run_in_executor(...)`, lines 208-216:
\* the dig run is handed to the executor, unless resolver["ip"] is missing.
SubmitDig(i) ==
    /\ check_pc = "gathering"
    /\ probe_pc[i] = "created"
    /\ IF "ip" \in DOMAIN resolvers[i]
       THEN /\ probe_pc' = [probe_pc EXCEPT ![i] = "dig"]
            /\ UNCHANGED probe_out
       ELSE /\ probe_pc' = [probe_pc EXCEPT ![i] = "done"]
            /\ probe_out' = [probe_out EXCEPT ![i] =
                                query_resolver(resolvers[i], None, record_type)]
    /\ UNCHANGED <<check_pc, resolvers, record_type, dig_run>>
    /\ UNCHANGED summary_vars
    /\ UNCHANGED outside_propagation

\* The dig run of task i has ended and _query_resolver runs to its end,
\* lines 218-248.
DigEnds(i, run) ==
    /\ check_pc = "gathering"
    /\ probe_pc[i] = "dig"
    /\ dig_run' = [dig_run EXCEPT ![i] = run]
    /\ probe_out' = [probe_out EXCEPT ![i] = query_resolver(resolvers[i], run, record_type)]
    /\ probe_pc' = [probe_pc EXCEPT ![i] = "done"]
    /\ UNCHANGED <<check_pc, resolvers, record_type>>
    /\ UNCHANGED summary_vars
    /\ UNCHANGED outside_propagation

\* asyncio.gather has every task's entry; lines 161-199.
CheckReturns ==
    /\ check_pc = "gathering"
    /\ \A i \in Probes : probe_pc[i] = "done"
    /\ probe_results' = valid_results(probe_out)
    /\ summary' = PropagationSummary(valid_results(probe_out))
    /\ check_pc' = "returned"
    /\ UNCHANGED <<resolvers, record_type, probe_pc, dig_run, probe_out>>
    /\ UNCHANGED outside_propagation

PropagationNext ==
    \/ \E rs \in SeqsUpTo(ResolverDicts, MaxResolvers) \ {<<>>}, rtype \in RecordTypes :
          StartCheck(rs, rtype)
    \/ \E i \in Probes : SubmitDig(i)
    \/ \E i \in Probes, run \in DigRuns : DigEnds(i, run)
    \/ CheckReturns

PropagationSpec == PropagationInit /\ [][PropagationNext]_vars

\* The event loop runs every task that can run, and every dig run ends
\* (dig is given +time=5 +tries=1 and subprocess.run a timeout).
FairPropagationSpec == PropagationSpec /\ WF_vars(PropagationNext)

\* ================================================================== cli.py
MaxWords == 5

\* A line of text is the list of its pieces, words and single whitespace
\* characters, with no two words side by side, so that two lists are
\* equal exactly when the texts are.
Whitespace == {" ", "\t"}
Words == {"a.com.", "300", "IN", "A", "TTL"}

\* str.split(): the words of the line.
split(line) == SelectSeq(line, LAMBDA piece : piece \notin Whitespace)

\* str.strip(): the line without the whitespace at its two ends.
strip(line) ==
    LET words == {k \in 1..Len(line) : line[k] \notin Whitespace}
    IN IF words = {} THEN <<>>
       ELSE SubSeq(line, CHOOSE k \in words : \A j \in words : k <= j,
                         CHOOSE k \in words : \A j \in words : j <= k)

\* " ".join(parts)
join(parts) ==
    [k \in 1..(IF Len(parts) = 0 THEN 0 ELSE 2 * Len(parts) - 1) |->
        IF k % 2 = 1 THEN parts[(k + 1) \div 2] ELSE " "]

\* The words of a list, with the same whitespace at every gap.
spaced(parts, gap) ==
    [k \in 1..(IF Len(parts) = 0 THEN 0 ELSE 2 * Len(parts) - 1) |->
        IF k % 2 = 1 THEN parts[(k + 1) \div 2] ELSE gap]

\* Lines 327-328: the messages that stand for an empty answer.
NoRecordsMessages ==
    {join(<<"No", "DNS", "records", "found">>), join(<<"No", "records", "found">>)}

\* A TTL field taken out of the line instead of being overwritten.
drop_ttl(parts) == <<parts[1]>> \o SubSeq(parts, 3, Len(parts))

\* Line 335: parts[1] = "TTL".
set_ttl(parts) == [parts EXCEPT ![2] = "TTL"]

\* A normaliser that takes three words for a record.
normalize_three_fields(line) ==
    IF Len(strip(line)) = 0 THEN line
    ELSE IF line \in NoRecordsMessages THEN line
    ELSE LET parts == split(line)
         IN IF Len(parts) >= 3 /\ parts[3] = "IN"
            THEN join(set_ttl(parts))
            ELSE line

\* normalize_dns_record, lines 312-339.
normalize_dns_record(line) ==
    IF Len(strip(line)) = 0 THEN line
    ELSE IF line \in NoRecordsMessages THEN line
    ELSE LET parts == split(line)
         IN IF Len(parts) >= 4 /\ parts[3] = "IN"
            THEN join(set_ttl(parts))
            ELSE line

\* The lines normalize_dns_record can be given: any words with any
\* whitespace between and around them (record lines, lines already
\* normalised, other forms, blank lines), and the two messages.
RecordLines ==
    {lead \o spaced(parts, gap) \o trail :
        parts \in SeqsUpTo(Words, MaxWords), gap \in Whitespace,
        lead \in {<<>>, <<" ">>}, trail \in {<<>>, <<"\t">>}}
    \cup {lead \o m : m \in NoRecordsMessages, lead \in {<<>>, <<" ">>}}

NormalizeInit ==
    /\ record_line \in RecordLines
    /\ normalized = <<>>
    /\ lookup_idle /\ summary_idle /\ propagation_idle
    /\ filter_idle /\ compare_idle /\ classify_idle
    /\ session_idle
    /\ panel_idle
    /\ digdata_idle

\* normalize_dns_record(record_line)
Normalize ==
    /\ normalized = <<>>
    /\ normalized' = <<normalize_dns_record(record_line)>>
    /\ UNCHANGED record_line
    /\ UNCHANGED outside_normalize

\* normalize_dns_record applied to what it returned.
NormalizeAgain ==
    /\ Len(normalized) = 1
    /\ normalized' = Append(normalized, normalize_dns_record(normalized[1]))
    /\ UNCHANGED record_line
    /\ UNCHANGED outside_normalize

NormalizeNext == Normalize \/ NormalizeAgain

NormalizeSpec == NormalizeInit /\ [][NormalizeNext]_vars

\* ---- filter_records_by_type
MaxLines == 3

\* A text of several lines: the list of its lines.
Text(lines) == [kind |-> "str", lines |-> lines]

\* `not raw_data`: None or the empty text.
is_empty_text(raw) == raw = None \/ raw.lines \in {<<>>, << <<>> >>}

\* [line.strip() for line in raw_data.strip().split('\n') if line.strip()]
stripped_lines(raw) ==
    LET kept == SelectSeq(raw.lines, LAMBDA line : Len(strip(line)) > 0)
    IN [k \in 1..Len(kept) |-> strip(kept[k])]

\* str.upper() on the record types asked for.
upper(type) ==
    CASE type = "a" -> "A"
      [] type = "any" -> "ANY"
      [] OTHER -> type

\* Line 353: l.startswith(';;'), for a stripped line.
is_header(line) == line[1] = ";;"

\* Line 355: 'flags:' in l.
has_flags(line) == \E k \in 1..Len(line) : line[k] = "flags:"

\* A header that is taken for authoritative whatever its flags.
always_authoritative(flag_line) == TRUE

\* Line 357: ' aa ' in the line, or ' aa;' in it (which is also how a
\* line ending in ' aa;' is found).
is_authoritative(flag_line) ==
    \/ \E k \in 2..(Len(flag_line) - 1) :
          flag_line[k - 1] = " " /\ flag_line[k] = "aa" /\ flag_line[k + 1] = " "
    \/ \E k \in 2..Len(flag_line) : flag_line[k - 1] = " " /\ flag_line[k] = "aa;"

\* Lines 363-375: the test of the loop body on one line.
is_kept(line, expected_type_upper) ==
    LET parts == split(line) IN
    /\ Len(parts) >= 4
    /\ parts[3] = "IN"
    /\ ~(expected_type_upper # "SOA" /\ parts[4] = "SOA")
    /\ (expected_type_upper = "ANY" \/ parts[4] = expected_type_upper)

\* filter_records_by_type, lines 342-375.
filter_records_by_type(raw, type) ==
    IF is_empty_text(raw) THEN <<>>
    ELSE LET lines == stripped_lines(raw)
             header_lines == SelectSeq(lines, is_header)
             flag_lines == SelectSeq(header_lines, has_flags)
         IN IF Len(header_lines) > 0 /\ Len(flag_lines) > 0
               /\ ~is_authoritative(flag_lines[1])
            THEN <<>>
            ELSE LET records == SelectSeq(lines, LAMBDA l : l \notin NoRecordsMessages)
                     expected_type_upper == IF type # "" THEN upper(type) ELSE ""
                 IN SelectSeq(records, LAMBDA l : is_kept(l, expected_type_upper))

\* Lines of a dig answer: records with tabs or spaces between the fields,
\* the header's flags line as dig prints it, other remarks, the message
\* for an empty answer, a blank line and a bare value.
AnswerLines ==
    {spaced(<<"a.com.", "300", "IN", "A", "1.2.3.4">>, "\t"),
     <<" ">> \o spaced(<<"a.com.", "900", "IN", "A", "1.2.3.4">>, " "),
     spaced(<<"a.com.", "300", "IN", "MX", "10", "mail.a.com.">>, "\t"),
     spaced(<<"a.com.", "300", "IN", "SOA", "ns1.a.com.", "admin.a.com.">>, "\t"),
     join(<<";;", "flags:", "qr", "aa", "rd;", "QUERY:", "1">>),
     join(<<";;", "flags:", "qr", "aa;", "QUERY:", "1">>),
     join(<<";;", "flags:", "qr", "rd", "ra;", "QUERY:", "1">>),
     join(<<";;", "ANSWER", "SECTION:">>),
     spaced(<<";a.com.", "IN", "A">>, "\t"),
     join(<<"No", "DNS", "records", "found">>),
     <<" ">>,
     <<"1.2.3.4">>}

WantedTypes == {"A", "a", "MX", "SOA", "ANY", ""}

FilterInit ==
    /\ raw_data \in {None} \cup {Text(lines) : lines \in SeqsUpTo(AnswerLines, MaxLines)}
    /\ expected_type \in WantedTypes
    /\ filtered = None
    /\ lookup_idle /\ summary_idle /\ propagation_idle
    /\ normalize_idle /\ compare_idle /\ classify_idle
    /\ session_idle
    /\ panel_idle
    /\ digdata_idle

\* filter_records_by_type(raw_data, expected_type)
Filter ==
    /\ filtered = None
    /\ filtered' = [kind |-> "list", items |-> filter_records_by_type(raw_data, expected_type)]
    /\ UNCHANGED <<raw_data, expected_type>>
    /\ UNCHANGED outside_filter

FilterNext == Filter

FilterSpec == FilterInit /\ [][FilterNext]_vars

\* ---- display_dns_comparison_rich, _plain and _json, for one record type
MaxAnswerLines == 2

\* Lines of the two answers compared.
ComparedLines ==
    {spaced(<<"a.com.", "300", "IN", "A", "1.2.3.4">>, "\t"),
     spaced(<<"a.com.", "900", "IN", "A", "1.2.3.4">>, "\t"),
     spaced(<<"a.com.", "300", "IN", "A", "5.6.7.8">>, "\t"),
     spaced(<<"a.com.", "300", "IN", "MX", "10", "mail.a.com.">>, "\t"),
     join(<<"No", "DNS", "records", "found">>)}

\* The LookupResult of one side: a failed lookup, an answer without raw
\* data, or an answer with the raw text of dig.
Answers ==
    {LookupResult("a.com", FALSE, None, Str(<<"DIG lookup timed out">>), "dig"),
     LookupResult("a.com", TRUE, MinimalInfo("a.com", "dig", None), None, "dig")}
    \cup {LookupResult("a.com", TRUE, MinimalInfo("a.com", "dig", Text(lines)), None, "dig") :
            lines \in SeqsUpTo(ComparedLines, MaxAnswerLines) \ {<<>>}}

\* `result.data and result.data.raw_data`
has_data(res) == res.data # None /\ ~is_empty_text(res.data.raw_data)

\* Lines 1192-1198, 1285-1288: the records of the type, or [].
records_of_type(res, type) ==
    IF has_data(res) THEN filter_records_by_type(res.data.raw_data, type) ELSE <<>>

\* Lines 1207-1211, 1532-1536, 1634-1638: every line of the raw answer
\* but the messages for an empty answer.
all_records(res) ==
    SelectSeq(stripped_lines(res.data.raw_data), LAMBDA r : r \notin NoRecordsMessages)

\* {normalize_dns_record(r) for r in records}
normalized_set(records) == {normalize_dns_record(records[k]) : k \in 1..Len(records)}

failed_status(resolver_result, ns_result) ==
    IF ~resolver_result.success /\ ~ns_result.success THEN "Both Failed"
    ELSE IF ~resolver_result.success THEN "Resolver Failed"
    ELSE "NS Failed"

\* display_dns_comparison_rich, lines 1185-1228: the Status column.
rich_status(resolver_result, ns_result, type) ==
    LET resolver_count == IF resolver_result.success
                          THEN Len(records_of_type(resolver_result, type)) ELSE 0
        ns_count == IF ns_result.success THEN Len(records_of_type(ns_result, type)) ELSE 0
    IN IF resolver_result.success /\ ns_result.success
       THEN IF resolver_count = 0 /\ ns_count = 0 THEN "OK"
            ELSE IF resolver_count = ns_count
            THEN IF normalized_set(all_records(resolver_result))
                        = normalized_set(all_records(ns_result))
                 THEN "OK" ELSE "Potential Issue"
            ELSE "Potential Issue"
       ELSE failed_status(resolver_result, ns_result)

\* display_dns_comparison_plain, lines 1388-1425: the status of the
\* summary line.
plain_status(resolver_result, ns_result, type) ==
    LET resolver_count == IF resolver_result.success
                          THEN Len(records_of_type(resolver_result, type)) ELSE 0
        ns_count == IF ns_result.success THEN Len(records_of_type(ns_result, type)) ELSE 0
    IN IF resolver_result.success /\ ns_result.success
       THEN IF resolver_count = 0 /\ ns_count = 0 THEN "OK"
            ELSE IF resolver_count = ns_count
            THEN IF normalized_set(records_of_type(resolver_result, type))
                        = normalized_set(records_of_type(ns_result, type))
                 THEN "OK" ELSE "Potential Issue"
            ELSE "Potential Issue"
       ELSE failed_status(resolver_result, ns_result)

\* Lines 1281-1318 and 1471-1508: the "Differences in ... records" block,
\* whether it is printed and the records under its two headings.
differences(resolver_result, ns_result, type) ==
    LET resolver_records == records_of_type(resolver_result, type)
        ns_records == records_of_type(ns_result, type)
        printed ==
            /\ resolver_result.success /\ ns_result.success
            /\ has_data(resolver_result) \/ has_data(ns_result)
            /\ normalized_set(resolver_records) # normalized_set(ns_records)
    IN [printed |-> printed,
        only_in_resolver |-> IF printed THEN ToSet(resolver_records) \ ToSet(ns_records) ELSE {},
        only_in_ns |-> IF printed THEN ToSet(ns_records) \ ToSet(resolver_records) ELSE {}]

\* Lines 1327-1360, 1517-1550 and 1619-1652: what the record type adds to
\* the totals of the overall analysis.
tally(resolver_result, ns_result) ==
    IF resolver_result.success /\ ns_result.success
    THEN IF ~has_data(resolver_result) /\ ~has_data(ns_result) THEN "match"
         ELSE IF has_data(resolver_result) /\ has_data(ns_result)
         THEN IF normalized_set(all_records(resolver_result))
                     = normalized_set(all_records(ns_result))
              THEN "match" ELSE "difference"
         ELSE "difference"
    ELSE "failure"

\* display_dns_comparison_json, lines 1582-1612: data["results"][rt]["comparison"].
json_comparison(resolver_result, ns_result) ==
    LET resolver_records == IF resolver_result.success /\ has_data(resolver_result)
                            THEN stripped_lines(resolver_result.data.raw_data) ELSE <<>>
        ns_records == IF ns_result.success /\ has_data(ns_result)
                      THEN stripped_lines(ns_result.data.raw_data) ELSE <<>>
        resolver_set == ToSet(resolver_records)
        ns_set == ToSet(ns_records)
    IN [match |-> resolver_set = ns_set,
        only_in_resolver |-> resolver_set \ ns_set,
        only_in_nameserver |-> ns_set \ resolver_set,
        common_records |-> resolver_set \cap ns_set]

CompareInit ==
    /\ all_results \in [authoritative : Answers, custom : Answers]
    /\ rt \in {"A", "MX"}
    /\ shown = None
    /\ lookup_idle /\ summary_idle /\ propagation_idle
    /\ normalize_idle /\ filter_idle /\ classify_idle
    /\ session_idle
    /\ panel_idle
    /\ digdata_idle

\* display_dns_comparison_rich(domain, [rt], all_results, compare_ns)
DisplayRich ==
    /\ shown = None
    /\ shown' = [format |-> "rich",
                 status |-> rich_status(all_results.authoritative, all_results.custom, rt),
                 differences |-> differences(all_results.authoritative, all_results.custom, rt),
                 overall |-> tally(all_results.authoritative, all_results.custom)]
    /\ UNCHANGED <<all_results, rt>>
    /\ UNCHANGED outside_compare

\* display_dns_comparison_plain(domain, [rt], all_results, compare_ns)
DisplayPlain ==
    /\ shown = None
    /\ shown' = [format |-> "plain",
                 status |-> plain_status(all_results.authoritative, all_results.custom, rt),
                 differences |-> differences(all_results.authoritative, all_results.custom, rt),
                 overall |-> tally(all_results.authoritative, all_results.custom)]
    /\ UNCHANGED <<all_results, rt>>
    /\ UNCHANGED outside_compare

\* display_dns_comparison_json(domain, [rt], all_results, compare_ns)
DisplayJson ==
    /\ shown = None
    /\ shown' = [format |-> "json",
                 comparison |-> json_comparison(all_results.authoritative, all_results.custom),
                 overall |-> tally(all_results.authoritative, all_results.custom)]
    /\ UNCHANGED <<all_results, rt>>
    /\ UNCHANGED outside_compare

CompareNext == DisplayRich \/ DisplayPlain \/ DisplayJson

CompareSpec == CompareInit /\ [][CompareNext]_vars

\* ========================== DomainChecker._determine_registration_status
\* The records a LookupResult can carry.
Records ==
    {DomainInfo("a.com", "whois", registrar, creation_date, expiration_date,
                name_servers, raw) :
        registrar \in {None, Str(<<>>), Str(<<"ACME">>)},
        creation_date \in {None, Date("2020-01-01")},
        expiration_date \in {None, Date("2030-01-01")},
        name_servers \in {<<>>, <<"ns1.a.com">>},
        raw \in {None, Str(<<>>), Str(<<"Registrar:", "ACME">>),
                 Str(<<"No match", "for DOMAIN.COM">>), Str(<<"whois text">>)}}

ErrorTexts ==
    {None, Str(<<"No match", "for DOMAIN.COM">>), Str(<<"Connection refused">>)}

\* Any LookupResult the model class accepts.
ClassifyInit ==
    /\ result \in {LookupResult("a.com", success, data, error, "whois") :
                      success \in BOOLEAN, data \in {None} \cup Records,
                      error \in ErrorTexts}
    /\ status = None
    /\ lookup_idle /\ summary_idle /\ propagation_idle
    /\ normalize_idle /\ filter_idle /\ compare_idle
    /\ session_idle
    /\ panel_idle
    /\ digdata_idle

\* self._determine_registration_status(result)
Classify ==
    /\ status = None
    /\ status' = Str(<<determine_registration_status(result)>>)
    /\ UNCHANGED result
    /\ UNCHANGED outside_classify

ClassifyNext == Classify

ClassifySpec == ClassifyInit /\ [][ClassifyNext]_vars

\* ================================= propagation_checker.py, resolver panels
MaxCheckers == 2
MaxPanel == 4

\* Line 91: the module's list, here with two of its entries.
GLOBAL_DNS_RESOLVERS ==
    <<[name |-> "Google Primary", ip |-> "8.8.8.8", location |-> "Global"],
      [name |-> "Cloudflare Primary", ip |-> "1.1.1.1", location |-> "Global"]>>

\* Resolvers a caller brings along.
CustomResolvers ==
    {[name |-> "Office", ip |-> "10.0.0.53", location |-> "Custom"],
     [name |-> "Lab", ip |-> "10.0.1.53", location |-> "Custom"]}

\* The reference the name GLOBAL_DNS_RESOLVERS holds.
GlobalRef == 1

Checkers == DOMAIN checker_resolvers

\* self.resolvers of checker c, the list behind the reference.
panel(c) == heap[checker_resolvers[c]]

\* The module is imported: its list exists, no checker does.
PanelInit ==
    /\ heap = <<GLOBAL_DNS_RESOLVERS>>
    /\ checker_resolvers = <<>>
    /\ panel_seen = <<>>
    /\ lookup_idle /\ summary_idle /\ propagation_idle /\ normalize_idle
    /\ filter_idle /\ compare_idle /\ classify_idle /\ session_idle
    /\ digdata_idle

\* DNSPropagationChecker(custom_resolvers=custom), lines 139-148: the
\* caller's list when it is not empty (a list of its own), the module's
\* list otherwise; <<>> stands for None and for [].
NewChecker(custom) ==
    /\ Len(checker_resolvers) < MaxCheckers
    /\ IF custom # <<>>
       THEN /\ heap' = Append(heap, custom)
            /\ checker_resolvers' = Append(checker_resolvers, Len(heap) + 1)
       ELSE /\ heap' = heap
            /\ checker_resolvers' = Append(checker_resolvers, GlobalRef)
    /\ panel_seen' = Append(panel_seen, <<>>)
    /\ UNCHANGED outside_panel

\* add_custom_resolver, lines 296-302: self.resolvers.append({...}).
add_custom_resolver(c, resolver) ==
    /\ Len(panel(c)) < MaxPanel
    /\ heap' = [heap EXCEPT ![checker_resolvers[c]] = Append(@, resolver)]
    /\ UNCHANGED <<checker_resolvers, panel_seen>>
    /\ UNCHANGED outside_panel

\* check_propagation, lines 163-166: one task per entry of self.resolvers;
\* the list is read, not written.
ReadPanel(c) ==
    /\ panel_seen' = [panel_seen EXCEPT ![c] = panel(c)]
    /\ UNCHANGED <<heap, checker_resolvers>>
    /\ UNCHANGED outside_panel

PanelNext ==
    \/ \E custom \in SeqsUpTo(CustomResolvers, 1) : NewChecker(custom)
    \/ \E c \in Checkers, resolver \in CustomResolvers : add_custom_resolver(c, resolver)
    \/ \E c \in Checkers : ReadPanel(c)

PanelSpec == PanelInit /\ [][PanelNext]_vars

\* ============================================ dig_client.py, DigClient.lookup
MaxDigLines == 2

\* A DomainInfo with every field of models.py, as DigClient fills it: the
\* fields not given keep their defaults.
DigDomainInfo(domain, name_servers, registrant, raw) ==
    [kind |-> "DomainInfo", domain |-> domain, registrar |-> None,
     creation_date |-> None, expiration_date |-> None, updated_date |-> None,
     status |-> <<>>, name_servers |-> name_servers, registrant |-> registrant,
     admin_contact |-> None, tech_contact |-> None, raw_data |-> raw,
     source |-> "dig"]

\* Lines of dig's answer section, each the list of its words: records in
\* the form name ttl IN type value, bare values, and a section header
\* that lookup writes between the answers of an ANY query.
DigAnswerLines ==
    {<<"a.com.", "300", "IN", "A", "1.2.3.4">>,
     <<"a.com.", "300", "IN", "NS", "ns1.a.com.">>,
     <<"a.com.", "300", "IN", "SOA", "ns1.a.com.", "hostmaster.a.com.", "2024010101">>,
     <<"a.com.", "300", "IN", "SOA", "ns1.a.com.">>,
     <<"ns1.a.com.", "hostmaster.a.com.">>,
     <<"===", "SOA", "Records", "===">>}

DigRecordTypes == {"A", "SOA", "ANY", "any"}

\* Line 261: line.startswith("=== ") and line.endswith(" Records ===").
is_section_header(line) ==
    Len(line) >= 4 /\ line[1] = "===" /\ line[Len(line) - 1] = "Records" /\ line[Len(line)] = "==="

\* _parse_specific_record, lines 299-325.
parse_specific_record(line, type) ==
    IF Len(line) >= 4 /\ line[3] = "IN"
    THEN [type |-> line[4], value |-> SubSeq(line, 5, Len(line))]
    ELSE [type |-> upper(type), value |-> line]

\* _parse_records, lines 250-276, from line k on with the section type at
\* hand.
RECURSIVE parse_records(_, _, _, _)
parse_records(output, type, k, current_record_type) ==
    IF k > Len(output) THEN <<>>
    ELSE IF is_section_header(output[k])
    THEN parse_records(output, type, k + 1, output[k][2])
    ELSE <<parse_specific_record(output[k],
                IF upper(type) = "ANY" THEN current_record_type ELSE type)>>
         \o parse_records(output, type, k + 1, current_record_type)

\* Line 232: soa_parts[1].replace(".", "@", 1).
mailbox(word) == IF word = "hostmaster.a.com." THEN "hostmaster@a.com." ELSE word

\* Lines 217-233: the contact made from the SOA record, if any.
soa_registrant(records, type) ==
    LET soa_records == SelectSeq(records, LAMBDA record : record.type = "SOA")
    IN IF upper(type) \in {"SOA", "ANY"} /\ Len(soa_records) > 0
          /\ Len(soa_records[1].value) >= 2
       THEN [name |-> "DNS Administrator", email |-> mailbox(soa_records[1].value[2])]
       ELSE None

\* _parse_dig_data, lines 178-248.
parse_dig_data(domain, output, type, auth) ==
    IF output = <<>>
    THEN DigDomainInfo(domain, <<>>, None, Str(<<"No DNS records found">>))
    ELSE LET records == parse_records(output, type, 1, type)
             ns_records == SelectSeq(records, LAMBDA record : record.type = "NS")
             name_servers ==
                 IF auth # <<>> THEN auth
                 ELSE IF upper(type) \in {"NS", "ANY"}
                 THEN [k \in 1..Len(ns_records) |-> ns_records[k].value]
                 ELSE <<>>
         IN DigDomainInfo(domain, name_servers, soa_registrant(records, type),
                          [kind |-> "str", lines |-> output])

\* DigClient.lookup, lines 20-122: the parsed answer, or an "Error:"
\* payload when the run of dig raised.
lookup_dig(domain, output, type, auth) ==
    IF IsException(output)
    THEN DigDomainInfo(domain, <<>>, None, Str(<<"Error:", "DIG command failed">>))
    ELSE parse_dig_data(domain, output.lines, type, auth)

DigDataInit ==
    /\ dig_output \in {Raised("DigError", "DIG command failed")}
            \cup {[kind |-> "stdout", lines |-> lines] :
                    lines \in SeqsUpTo(DigAnswerLines, MaxDigLines)}
    /\ dig_record_type \in DigRecordTypes
    /\ auth_nameservers \in {<<>>, <<"ns1.a.com">>}
    /\ dig_info = None
    /\ lookup_idle /\ summary_idle /\ propagation_idle /\ normalize_idle
    /\ filter_idle /\ compare_idle /\ classify_idle /\ session_idle /\ panel_idle

\* self.dig_client.lookup(domain, dig_record_type), core.py line 120.
DigLookup ==
    /\ dig_info = None
    /\ dig_info' = lookup_dig("a.com", dig_output, dig_record_type, auth_nameservers)
    /\ UNCHANGED <<dig_output, dig_record_type, auth_nameservers>>
    /\ UNCHANGED outside_digdata

DigDataNext == DigLookup

DigDataSpec == DigDataInit /\ [][DigDataNext]_vars

\* ================================================================== claims

IsLookupResult(x) == x.kind = "LookupResult"

Finished == bulk_pc \in {"returned", "raised"}

\* The tasks inside lookup_domain.
InFlight == {i \in Tasks : pc[i] \in {"lookup", "whois"}}

\* The RDAP answer of task i is a record parsed from the server's JSON.
RdapGaveData(i) ==
    /\ rdap_answer[i].kind = "DomainInfo"
    /\ rdap_answer[i].raw_data = Str(<<"{json}">>)

\* The RDAP attempt of task i was made and gave nothing usable: it raised,
\* or its payload is an error or a "No RDAP ..." message.
RdapGaveNothing(i) ==
    /\ rdap_answer[i] # None
    /\ ~RdapGaveData(i)

WhoisGaveData(i) ==
    /\ whois_answer[i].kind = "DomainInfo"
    /\ whois_answer[i].raw_data \in {Str(<<"Registrar:", "ACME">>), Str(<<"whois text">>)}

\* C1: lookup_domain never raises to its caller: whatever the target, the
\* method and the backends' behaviour, a finished call has handed back a
\* LookupResult.
C1_LookupNeverRaises ==
    \A i \in Tasks : pc[i] = "done" => IsLookupResult(results[i])

\* C2: lookup_domains_bulk gives one result per target, in input order:
\* once the call is over, it has returned len(domains) results and the
\* i-th result is about the i-th target.
C2_BulkPreservesOrder ==
    Finished =>
        /\ ret.kind = "BulkLookupResult"
        /\ Len(ret.results) = Len(domains)
        /\ \A i \in 1..Len(domains) : ret.results[i].domain = domains[i]

\* C3: lookup_domains_bulk isolates failures: when the lookups of some
\* targets raised, the call still returns, those targets have a failed
\* LookupResult of their own and every other target has the result its
\* own lookup produced.
C3_BulkIsolatesFailures ==
    (Finished /\ \E i \in Tasks : IsException(results[i])) =>
        /\ ret.kind = "BulkLookupResult"
        /\ \A i \in Tasks :
              IF IsException(results[i])
              THEN /\ ret.results[i].domain = domains[i]
                   /\ ~ret.results[i].success
              ELSE ret.results[i] = results[i]

\* C4: at no time are more than max_concurrent lookup_domain calls of one
\* batch in flight.
C4_InFlightBounded == Cardinality(InFlight) <= max_concurrent

\* C4 witness: every permit is in use by a lookup in flight while another
\* target is still waiting for one.
C4_Witness ==
    /\ max_concurrent >= 1
    /\ Cardinality(InFlight) = max_concurrent
    /\ \E i \in Tasks : pc[i] = "created"

\* C6: every call of lookup_domains_bulk eventually returns a
\* BulkLookupResult.
C6_BulkEventuallyReturns == (bulk_pc = "gathering") ~> (bulk_pc = "returned")

\* C7: with method auto, RDAP is the first backend queried, WHOIS is
\* queried only after an RDAP attempt that gave nothing usable, and a
\* lookup whose RDAP attempt gave data never queries WHOIS and reports
\* method rdap.
C7_AutoRdapFirst ==
    method = "auto" =>
        \A i \in Tasks :
            /\ calls[i] # <<>> => calls[i][1] = "rdap"
            /\ (\E k \in 1..Len(calls[i]) : calls[i][k] = "whois") => RdapGaveNothing(i)
            /\ (pc[i] = "done" /\ RdapGaveData(i)) =>
                   /\ calls[i] = <<"rdap">>
                   /\ IsLookupResult(results[i])
                   /\ results[i].method = "rdap"

\* C8: with method auto, a lookup whose RDAP attempt gave nothing usable
\* queries WHOIS next, and the WHOIS answer decides the outcome.
C8_AutoFallsBackToWhois ==
    method = "auto" =>
        \A i \in Tasks :
            (pc[i] = "done" /\ RdapGaveNothing(i)) =>
                /\ calls[i] = <<"rdap", "whois">>
                /\ IsLookupResult(results[i])
                /\ results[i].method = "whois"
                /\ results[i].success = WhoisGaveData(i)

\* C9: an outcome whose attempted backends all failed has success false,
\* an error message and no record; a record is present only with success
\* true and a backend that gave usable data.
C9_FailureHasNoRecord ==
    \A i \in Tasks :
        pc[i] = "done" =>
            /\ IsLookupResult(results[i])
            /\ (method = "auto" /\ RdapGaveNothing(i) /\ ~WhoisGaveData(i)) =>
                   /\ ~results[i].success
                   /\ results[i].error # None
                   /\ results[i].data = None
            /\ (method = "whois" /\ ~WhoisGaveData(i)) =>
                   /\ ~results[i].success
                   /\ results[i].error # None
                   /\ results[i].data = None
            /\ results[i].data # None =>
                   /\ results[i].success
                   /\ results[i].data.raw_data \notin
                        {Str(<<"Error:", "parse">>), Str(<<"Error:", "DIG command failed">>),
                         Str(<<"No RDAP data available">>), Str(<<"No WHOIS data available">>)}

\* C10: with method rdap or whois only that backend is queried, once, and
\* the outcome reports the requested method.
C10_SingleMethodNoFallback ==
    method \in {"rdap", "whois"} =>
        \A i \in Tasks :
            /\ calls[i] \in {<<>>, <<method>>}
            /\ pc[i] = "done" =>
                   /\ IsLookupResult(results[i])
                   /\ results[i].method = method

\* ------------------------------------------------ PropagationSummary claims
Built == summary # None

\* The successful probes whose answer is, as a set, the answer of probe i.
SameSetAs(res, i) ==
    {j \in successful_results(res) : ToSet(res[j].resolved_ips) = ToSet(res[i].resolved_ips)}

\* The size of the largest group of successful probes with set-equal answers.
MostFrequentSetCount(res) ==
    IF successful_results(res) = {} THEN 0
    ELSE CHOOSE n \in {Cardinality(SameSetAs(res, i)) : i \in successful_results(res)} :
            \A i \in successful_results(res) : Cardinality(SameSetAs(res, i)) <= n

\* C11: whatever the mix of successful, failed and empty-answer probes, a
\* summary with fully_propagated true has propagation_percentage 100.0.
C11_FullyPropagatedIsHundred ==
    Built => (summary.fully_propagated
                => SameRatio(summary.propagation_percentage, Ratio(100, 1)))

\* C12: fully_propagated is true exactly when there is a successful probe
\* and any two successful probes answered with equal sets (all of them
\* answering with the empty set included); with no successful probe the
\* summary is still built, with fully_propagated false and percentage 0.
C12_FullyPropagatedIffSetEqual ==
    Built =>
        LET succ == successful_results(probe_results) IN
        /\ summary.fully_propagated <=>
                /\ succ # {}
                /\ \A i, j \in succ :
                      ToSet(probe_results[i].resolved_ips) = ToSet(probe_results[j].resolved_ips)
        /\ succ = {} =>
                /\ ~summary.fully_propagated
                /\ SameRatio(summary.propagation_percentage, Ratio(0, 1))

\* Two successful probes gave the same values in another order, and the
\* summary calls the record fully propagated.
C12_Witness ==
    /\ Built
    /\ summary.fully_propagated
    /\ \E i, j \in successful_results(probe_results) :
          /\ probe_results[i].resolved_ips # probe_results[j].resolved_ips
          /\ ToSet(probe_results[i].resolved_ips) = ToSet(probe_results[j].resolved_ips)

\* C13: propagation_percentage is 100 times the number of probes in the
\* largest group of probes with set-equal answers, over the number of
\* probes; order and repetition inside an answer do not matter.
C13_PercentageOfMostFrequentSet ==
    Built =>
        SameRatio(summary.propagation_percentage,
                  IF Len(probe_results) = 0 THEN Ratio(0, 1)
                  ELSE Ratio(100 * MostFrequentSetCount(probe_results), Len(probe_results)))

\* C14: unique_ips is the union of the answers of the successful probes:
\* every value of a successful probe is in it, and every value in it is a
\* value of some successful probe.
C14_UniqueIpsOfSuccessful ==
    Built =>
        /\ \A i \in successful_results(probe_results) :
              ToSet(probe_results[i].resolved_ips) \subseteq summary.unique_ips
        /\ \A v \in summary.unique_ips :
              \E i \in successful_results(probe_results) :
                  v \in ToSet(probe_results[i].resolved_ips)

\* A failed probe carries a value no successful probe gave, and the value
\* is not in unique_ips.
C14_Witness ==
    /\ Built
    /\ summary.unique_ips # {}
    /\ \E i \in 1..Len(probe_results), v \in IPs :
          /\ ~probe_results[i].success
          /\ v \in ToSet(probe_results[i].resolved_ips)
          /\ v \notin summary.unique_ips

\* ------------------------------------------------ check_propagation claims
\* C15: check_propagation always completes and returns a PropagationSummary,
\* even if every probe fails; a probe whose dig run failed or timed out has
\* a result of its own with success false and an error, and the result of a
\* finished probe is never changed by its siblings.
C15_PropagationIsolatesFailures ==
    /\ (check_pc = "gathering") ~> (check_pc = "returned" /\ summary.kind = "PropagationSummary")
    /\ [][\A i \in Probes : probe_pc[i] = "done" =>
            probe_pc'[i] = "done" /\ probe_out'[i] = probe_out[i]]_vars
    /\ [](check_pc = "returned" =>
            \A i \in Probes :
                dig_run[i] # None /\ BackendFailed(dig_run[i]) =>
                    /\ ~probe_results[i].success
                    /\ probe_results[i].error # None)

\* ----------------------------------------------------------- cli.py claims
\* C16: normalize_dns_record is idempotent: for every line, normalising
\* the normalised line gives the normalised line again.
C16_NormalizeIdempotent ==
    Len(normalized) = 2 => normalized[2] = normalized[1]

\* A record line whose TTL was replaced, normalised a second time.
C16_Witness ==
    /\ Len(normalized) = 2
    /\ normalized[1] # record_line
    /\ split(record_line)[3] = "IN"
    /\ split(normalized[1])[2] = "TTL"

\* A line in the standard form <name> <ttl> IN <type> <value...>.
StandardForm(line) == Len(split(line)) >= 4 /\ split(line)[3] = "IN"

DeclaredType(line) == split(line)[4]

\* The answer has a header with a flags line, and the first flags line
\* does not carry the aa flag.
NotAuthoritative(raw) ==
    LET flags == SelectSeq(raw.lines,
                     LAMBDA l : Len(split(l)) > 0 /\ split(l)[1] = ";;"
                                /\ \E k \in 1..Len(l) : l[k] = "flags:")
    IN /\ Len(flags) > 0
       /\ \A k \in 1..Len(split(flags[1])) : split(flags[1])[k] \notin {"aa", "aa;"}

\* C20: filter_records_by_type returns, in input order, exactly the
\* standard-form lines of the answer whose type is the wanted one (every
\* type for ANY), without the SOA lines unless SOA is wanted; and nothing
\* when the header says the answer is not authoritative.
C20_FilterByType ==
    filtered # None =>
        filtered.items =
            IF raw_data = None \/ NotAuthoritative(raw_data) THEN <<>>
            ELSE LET lines == SelectSeq(raw_data.lines, StandardForm)
                     wanted == upper(expected_type)
                     chosen == SelectSeq(lines,
                                 LAMBDA l : /\ wanted = "ANY" \/ DeclaredType(l) = wanted
                                            /\ DeclaredType(l) = "SOA" => wanted = "SOA")
                 IN [k \in 1..Len(chosen) |-> strip(chosen[k])]

\* An authoritative answer with an SOA line and an A line, filtered for
\* "a": the A line is returned and the SOA line is not.
C20_Witness ==
    /\ filtered # None
    /\ expected_type = "a"
    /\ Len(filtered.items) = 1
    /\ \E k \in 1..Len(raw_data.lines) : is_authoritative(raw_data.lines[k])
    /\ \E k \in 1..Len(raw_data.lines) :
          StandardForm(raw_data.lines[k]) /\ DeclaredType(raw_data.lines[k]) = "SOA"

\* The standard-form records of the type in an answer, each without its
\* TTL field.
RecordsWithoutTtl(res, type) ==
    IF ~res.success \/ ~has_data(res) THEN {}
    ELSE {<<split(l)[1]>> \o SubSeq(split(l), 3, Len(split(l))) :
            l \in {res.data.raw_data.lines[k] : k \in 1..Len(res.data.raw_data.lines)}
                  \cap {l \in ComparedLines : StandardForm(l) /\ DeclaredType(l) = type}}

\* Both answers have records of the compared type, the same ones up to
\* their TTL values.
DifferOnlyInTtl ==
    /\ RecordsWithoutTtl(all_results.authoritative, rt) # {}
    /\ RecordsWithoutTtl(all_results.authoritative, rt)
          = RecordsWithoutTtl(all_results.custom, rt)

\* C17: the comparison is made on normalised lines: when the records of
\* the compared type differ only in TTL values, the rich, the plain and the
\* JSON output all report a match and list no record as only in one answer.
C17_TtlDriftIsAMatch ==
    shown # None /\ DifferOnlyInTtl =>
        /\ shown.overall = "match"
        /\ shown.format \in {"rich", "plain"} =>
              /\ shown.status = "OK"
              /\ ~shown.differences.printed
        /\ shown.format = "json" =>
              /\ shown.comparison.match
              /\ shown.comparison.only_in_resolver = {}
              /\ shown.comparison.only_in_nameserver = {}

\* ------------------------------------------------------- classifier claims
\* The record has a non-empty registrar, a creation date, an expiration
\* date or a non-empty nameserver list.
HasRegistrationData(data) ==
    \/ Truthy(data.registrar)
    \/ data.creation_date # None
    \/ data.expiration_date # None
    \/ Len(data.name_servers) > 0

\* The verdict of the first matching rule of the list (2)-(5), after a
\* first rule that is given.
FirstMatchingRule(res, first_rule) ==
    IF first_rule THEN "not_registered"
    ELSE IF res.data # None /\ HasRegistrationData(res.data) THEN "registered"
    ELSE IF Truthy(res.error) /\ ContainsAny(LowerText(res.error), ErrorPhrases)
         THEN "not_registered"
    ELSE IF res.data # None /\ Truthy(res.data.raw_data)
            /\ ContainsAny(LowerText(res.data.raw_data), RegisteredPhrases)
         THEN "registered"
    ELSE IF res.data # None /\ Truthy(res.data.raw_data)
            /\ ContainsAny(LowerText(res.data.raw_data), NotRegisteredPhrases)
         THEN "not_registered"
    ELSE "possibly_registered"

C19_BulkCounts ==
    Finished =>
        /\ ret.kind = "BulkLookupResult"
        /\ ret.total_domains = Len(domains)
        /\ ret.total_domains = Len(ret.results)
        /\ ret.successful_lookups =
              Cardinality({i \in 1..Len(ret.results) : ret.results[i].success})
        /\ ret.successful_lookups + ret.failed_lookups = ret.total_domains

\* ------------------------------------------------- classification present
\* x is a LookupResult carrying the classifier's verdict for it.
Classified(x) ==
    /\ IsLookupResult(x)
    /\ "registration_status" \in DOMAIN x
    /\ x.registration_status = determine_registration_status(x)
    /\ x.registration_status \in {"registered", "not_registered", "possibly_registered"}

\* C21: every LookupResult returned by lookup_domain, and every entry of
\* the results of lookup_domains_bulk (those built from a caught exception
\* included), carries a registration_status equal to the classifier's
\* verdict for that outcome.
C21_StatusAlwaysPresent ==
    /\ \A i \in Tasks : pc[i] = "done" => Classified(results[i])
    /\ Finished =>
          /\ ret.kind = "BulkLookupResult"
          /\ \A k \in 1..Len(ret.results) : Classified(ret.results[k])

\* ------------------------------------------------------ empty record sets
\* Both queries succeeded and neither answer has a record of the type
\* compared.
BothFilteredEmpty ==
    /\ all_results.authoritative.success
    /\ all_results.custom.success
    /\ records_of_type(all_results.authoritative, rt) = <<>>
    /\ records_of_type(all_results.custom, rt) = <<>>

\* C22: when both queries succeed and both filtered record lists of the
\* type are empty, the type is reported as a match in the per-type status
\* and counted as a match by the overall analysis, whatever other lines the
\* raw answers hold.
C22_EmptyFilteredSetsMatch ==
    (shown # None /\ BothFilteredEmpty) =>
        /\ shown.format \in {"rich", "plain"} => shown.status = "OK"
        /\ shown.overall = "match"

\* ------------------------------------------------------- TTL normalisation
\* The word lists p and q are the same but for the TTL, their second word.
SameButTtl(p, q) ==
    /\ Len(p) = Len(q)
    /\ \A k \in 1..Len(p) : k # 2 => p[k] = q[k]

\* Lines to compare a record line with: its words with any TTL and any
\* one word replaced, or with one more word at the end.
Others(line) ==
    LET p == split(line)
    IN {spaced([[p EXCEPT ![2] = v] EXCEPT ![k] = w], " ") :
            v \in Words, k \in 1..Len(p), w \in Words}
       \cup {spaced(Append(p, w), " ") : w \in Words}

C24_NoSharedSession ==
    \A r \in requests : pc[r.task] = "rdap" => ~closed(r.session)

\* ---------------------------------------------------------- resolver panels
\* C25: no operation of a DNSPropagationChecker changes
\* GLOBAL_DNS_RESOLVERS, and none changes the panel of another checker:
\* every step leaves the module's list as it was and changes the panel of
\* one checker at most.
C25_PanelsAreOwn ==
    [][/\ heap'[GlobalRef] = heap[GlobalRef]
       /\ Cardinality({c \in Checkers :
              heap'[checker_resolvers'[c]] # heap[checker_resolvers[c]]}) <= 1]_vars

\* ------------------------------------------------------------ DNS-only data
\* C26: the record of a lookup with method dig has every
\* registration-specific field empty: registrar, creation, expiration and
\* update dates, status list, registrant, administrative and technical
\* contacts.
C26_DigHasNoRegistrationData ==
    dig_info # None =>
        /\ dig_info.registrar = None
        /\ dig_info.creation_date = None
        /\ dig_info.expiration_date = None
        /\ dig_info.updated_date = None
        /\ dig_info.status = <<>>
        /\ dig_info.registrant = None
        /\ dig_info.admin_contact = None
        /\ dig_info.tech_contact = None

\* ------------------------------------------------------- malformed targets
\* C27: a target validate_domain rejects is rejected before dispatch:
\* no backend is ever queried for it, by lookup_domain or by
\* lookup_domains_bulk.
C27_MalformedNeverDispatched ==
    \A i \in Tasks :
        IsException(validate_domain(domains[i])) => calls[i] = <<>>

\* ------------------------------------------------------ concurrency permits
\* The workers holding a permit: those waiting on the rate limiter or
\* inside lookup_domain.
PermitHolders == {i \in Tasks : pc[i] \notin {"created", "done"}}

\* C28: a worker takes a permit before it waits on the rate limiter and
\* keeps it until its lookup has returned or raised: at any time of a
\* batch the workers waiting on the rate limiter or inside a lookup are
\* as many as the permits taken and at most max_concurrent, and when the
\* batch is over no permit is taken.
C28_PermitsMatchWorkers ==
    bulk_pc # "idle" =>
        /\ Cardinality(PermitHolders) = max_concurrent - semaphore
        /\ Cardinality(PermitHolders) <= max_concurrent
        /\ Finished => semaphore = max_concurrent /\ PermitHolders = {}

\* With one permit, a first worker has finished and given the permit
\* back, and the second worker holds it while it waits on the rate limiter.
C28_Witness ==
    /\ max_concurrent = 1
    /\ semaphore = 0
    /\ \E i \in Tasks : pc[i] = "done"
    /\ \E i \in Tasks : pc[i] = "throttle"

\* ----------------------------------------------------------- unknown method
\* C29: with a method that is none of auto, rdap, whois and dig,
\* lookup_domain queries no backend and returns a failed LookupResult:
\* success false, no record, an error naming the method, and the
\* requested method echoed.
C29_UnknownMethodFails ==
    method \notin KnownMethods =>
        \A i \in Tasks :
            /\ calls[i] = <<>>
            /\ pc[i] = "done" =>
                  /\ IsLookupResult(results[i])
                  /\ ~results[i].success
                  /\ results[i].data = None
                  /\ results[i].error = Str(<<"Unknown method: " \o method>>)
                  /\ results[i].method = method

====
